---- MODULE Spec2Model ----
(***************************************************************************)
(* A model of the crawl engine of llm-crawl: EnhancedCrawler.crawl and     *)
(* EnhancedCrawler.process_url (src/crawler.py) together with the helpers  *)
(* they call: AdaptiveRateLimiter, RobotsParser, ProxyManager,             *)
(* ContentDeduplicator, ContentExtractor, ContinuousLearner and            *)
(* EnhancedLinkPrioritizer (src/utils).                                    *)
(*                                                                         *)
(* process_url is a coroutine.  It runs without suspension from its entry  *)
(* to the call of session.get (robots lookup, rate-limit sleep and proxy   *)
(* selection are blocking calls), suspends while the request is in flight, *)
(* suspends again in response.text(), and then runs without suspension to  *)
(* its end.  Each of these three segments is one action here; the tasks    *)
(* gathered by crawl() interleave between segments.                        *)
(***************************************************************************)
EXTENDS Integers, Sequences, FiniteSets, TLC

(***************************************************************************)
(* Exact rational arithmetic.  Delays and clock readings are floats in the *)
(* program; here they are fractions <<n, d>> in lowest terms with d > 0.   *)
(***************************************************************************)
RECURSIVE Gcd(_, _)
Gcd(a, b) == IF b = 0 THEN a ELSE Gcd(b, a % b)

Abs(x) == IF x < 0 THEN -x ELSE x

Norm(n, d) ==
    LET g == Gcd(Abs(n), d) IN
    IF n = 0 THEN <<0, 1>> ELSE <<n \div g, d \div g>>

Q(n) == <<n, 1>>

RAdd(x, y) == Norm(x[1] * y[2] + y[1] * x[2], x[2] * y[2])
RSub(x, y) == Norm(x[1] * y[2] - y[1] * x[2], x[2] * y[2])
RMul(x, y) == Norm(x[1] * y[1], x[2] * y[2])
RDiv(x, y) == Norm(x[1] * y[2], x[2] * y[1])
RLt(x, y)  == x[1] * y[2] < y[1] * x[2]
RLe(x, y)  == x[1] * y[2] <= y[1] * x[2]
RMax(x, y) == IF RLt(x, y) THEN y ELSE x
RMin(x, y) == IF RLt(y, x) THEN y ELSE x

RECURSIVE RPow(_, _)
RPow(x, n) == IF n = 0 THEN Q(1) ELSE RMul(x, RPow(x, n - 1))

(***************************************************************************)
(* AdaptiveRateLimiter (src/utils/adaptive_rate_limiter.py)                *)
(***************************************************************************)
initial_delay  == Q(1)
backoff_factor == <<3, 2>>
max_delay      == Q(60)

\* A variant of update that forgets the clamp at max_delay.
UpdatedDelayUnclamped(d, success) ==
    IF success
    THEN RMax(RDiv(d, backoff_factor), Q(1))
    ELSE RMul(d, backoff_factor)

\* update(domain, success): the new delay of the domain, from its delay d.
UpdatedDelay(d, success) ==
    IF success
    THEN RMax(RDiv(d, backoff_factor), Q(1))
    ELSE RMin(RMul(d, backoff_factor), max_delay)

\* wait(domain): the clock reading at which wait returns, when it is entered
\* at clock reading t with the domain's last request at last and delay d.
WaitUntil(t, last, d) ==
    LET elapsed == RSub(t, last) IN
    IF RLt(elapsed, d) THEN RAdd(t, RSub(d, elapsed)) ELSE t

(***************************************************************************)
(* URLs, pages and the configuration of a run                              *)
(***************************************************************************)
\* A URL is <<netloc, path>>, the path a sequence of segments.
Netloc(u) == u[1]
PathOf(u) == u[2]

A     == <<"a", <<>>>>
Ax    == <<"a", <<"x">>>>
Apriv == <<"a", <<"private", "a">>>>
B     == <<"b", <<>>>>
Bx    == <<"b", <<"x">>>>

Hosts == {"a", "b"}

\* The seed lists the runs are started with (EnhancedCrawler.__init__).
SeedLists == {<<A, A>>, <<A, Ax>>, <<A, B>>, <<B, A>>, <<A, Apriv>>}

\* config["proxies"]: the empty default and a list of two.
ProxyLists == {<<>>, <<"p1", "p2">>}

\* Constructor arguments max_depth and max_urls_per_domain.
max_depth           == 1
max_urls_per_domain == 1

\* An href is absolute (it has a scheme) or relative.
AbsLink(u) == <<"abs", u>>
RelLink(p) == <<"rel", p>>
HasScheme(link) == link[1] = "abs"

\* The bodies a server can answer with: "home" is an article with three
\* links, "stub" an article with one link, "blob" makes the parse of
\* ContentExtractor.extract raise.
Bodies == {"home", "stub", "blob"}

\* The hrefs of the body's <a> elements, in document order.
LinksOf(body) ==
    CASE body = "home" -> <<AbsLink(Apriv), RelLink(<<"x">>), AbsLink(B)>>
      [] body = "stub" -> <<AbsLink(Ax)>>
      [] OTHER         -> <<>>

\* extract(html, url): <<record>>, or <<>> for None when the parse raises.
\* The record's title, text, ... are the body's; process_url adds the url.
Extract(body, url) ==
    IF body = "blob" THEN <<>> ELSE <<[body |-> body]>>

\* hashlib.md5(content.encode()).hexdigest()
Md5(body) == <<"md5", body>>

\* is_duplicate(content) against the set of hashes seen.
IsDuplicate(hashes, body) == Md5(body) \in hashes

\* A variant of is_duplicate that forgets to record the hash.
HashesAfterForgotten(hashes, body) == hashes

\* The hashes held after is_duplicate(content) has run.
HashesAfter(hashes, body) == hashes \cup {Md5(body)}

\* Network time that passes while a request of the session is awaited.
MaxLatency == 2
Latencies == {Q(0), Q(MaxLatency)}

\* time.time() when the run starts; last_request_time defaults to 0.0.
Epoch == 100

(***************************************************************************)
(* RobotsParser (src/utils/robots_parser.py)                               *)
(***************************************************************************)
\* What the fetch of https://{domain}/robots.txt by RobotFileParser.read can
\* end in: a file with "Disallow: /private", a 4xx (allow all), a 401/403
\* (disallow all), a 5xx (nothing read) or a network error (read raises).
RobotsReplies == {"rules", "missing", "forbidden", "error", "unreachable"}

\* The parser read() leaves behind for a reply that does not raise.
ParserFor(reply) ==
    CASE reply = "rules"     -> "rules"
      [] reply = "missing"   -> "allow_all"
      [] reply = "forbidden" -> "disallow_all"
      [] OTHER               -> "unread"

\* RobotFileParser.can_fetch(user_agent, url) of a cached parser.
ParserCanFetch(parser, url) ==
    CASE parser = "allow_all" -> TRUE
      [] parser = "rules"     ->
            ~(Len(PathOf(url)) > 0 /\ PathOf(url)[1] = "private")
      [] OTHER                -> FALSE

(***************************************************************************)
(* ProxyManager (src/utils/proxy_manager.py)                               *)
(***************************************************************************)
\* get_proxy raises IndexError on an empty list.
GetProxyRaises(plist, index) == ~(index + 1 \in 1..Len(plist))

GetProxy(plist, index) == plist[index + 1]

\* A variant of line 10 without the wrap-around.
NextIndexNoWrap(plist, index) == index + 1

NextIndex(plist, index) == (index + 1) % Len(plist)

(***************************************************************************)
(* EnhancedLinkPrioritizer (src/utils/link_prioritzer.py)                  *)
(***************************************************************************)
\* config["priority_rules"] and config["content_type_weights"].
PriorityRules == [h \in {"b"} |-> 5]
ContentTypeWeights == [seg \in {"x"} |-> 2]

\* What requests.get(link) returns to fetch_webpage_content: "" stands for
\* a failed request or an empty body.
LinkReplies == {"", "home", "stub"}

\* semantic_similarity * 10 + keyword_score of a page's text.
TextSignal(content) == IF content = "home" THEN 3 ELSE 0

\* url.count("/"): two for "://" and one per path segment, "/" for none.
SlashCount(u) == 2 + (IF Len(PathOf(u)) = 0 THEN 1 ELSE Len(PathOf(u)))

RECURSIVE TypeWeight(_, _)
TypeWeight(path, types) ==
    IF types = {} THEN 0
    ELSE LET t == CHOOSE x \in types : TRUE IN
         (IF \E i \in 1..Len(path) : path[i] = t THEN ContentTypeWeights[t] ELSE 0)
         + TypeWeight(path, types \ {t})

\* calculate_priority(url, content) with the Counter visited_domains = vd.
CalculatePriority(u, content, vd) ==
    LET domain == Netloc(u)
        base == IF domain \in DOMAIN PriorityRules THEN PriorityRules[domain] ELSE 0
        diversity == IF vd[domain] = 0 THEN 3 ELSE IF vd[domain] < 5 THEN 1 ELSE 0
        total == RSub(Q(base + TextSignal(content)
                        + TypeWeight(PathOf(u), DOMAIN ContentTypeWeights)
                        + diversity),
                      RMul(Q(SlashCount(u)), <<1, 2>>))
    IN RMax(total, Q(0))

\* fetch_webpage_content(link): a link without a scheme makes requests.get
\* raise MissingSchema, a RequestException, before any request is sent.
FetchWebpageContent(link, reply) == IF HasScheme(link) THEN reply ELSE ""

\* sorted(..., key=priority, reverse=True): descending and stable.
RECURSIVE InsertDesc(_, _)
InsertDesc(sorted, e) ==
    IF sorted = <<>> THEN <<e>>
    ELSE IF RLt(Head(sorted)[2], e[2]) THEN <<e>> \o sorted
    ELSE <<Head(sorted)>> \o InsertDesc(Tail(sorted), e)

RECURSIVE SortedDesc(_)
SortedDesc(list) ==
    IF list = <<>> THEN <<>>
    ELSE InsertDesc(SortedDesc(SubSeq(list, 1, Len(list) - 1)), list[Len(list)])

\* The loop of prioritize_links over links[i..], with the replies of the
\* requests it sends: the scored links, the Counter and the URLs requested.
RECURSIVE ScoreLinks(_, _, _, _)
ScoreLinks(links, replies, i, st) ==
    IF i > Len(links) THEN st
    ELSE LET link == links[i]
             content == FetchWebpageContent(link, replies[i])
             gets == IF HasScheme(link) THEN st.gets \cup {link[2]} ELSE st.gets
         IN IF content = ""
            THEN ScoreLinks(links, replies, i + 1, [st EXCEPT !.gets = gets])
            ELSE ScoreLinks(links, replies, i + 1,
                    [scored |-> Append(st.scored,
                                   <<link, CalculatePriority(link[2], content, st.vd)>>),
                     vd     |-> [st.vd EXCEPT ![Netloc(link[2])] = @ + 1],
                     gets   |-> gets])

PrioritizeLinks(links, replies, vd, gets) ==
    LET st == ScoreLinks(links, replies, 1, [scored |-> <<>>, vd |-> vd, gets |-> gets])
    IN [st EXCEPT !.scored = SortedDesc(st.scored)]

(***************************************************************************)
(* State                                                                   *)
(***************************************************************************)
VARIABLES
    seed_urls,          \* constructor argument seed_urls
    proxies,            \* ProxyManager.proxies
    current_index,      \* ProxyManager.current_index
    url_queue,          \* EnhancedCrawler.url_queue: sequence of <<url, depth>>
    visited_urls,       \* EnhancedCrawler.visited_urls
    results,            \* EnhancedCrawler.results
    delays,             \* AdaptiveRateLimiter.delays (a defaultdict)
    last_request_time,  \* AdaptiveRateLimiter.last_request_time (a defaultdict)
    now,                \* the reading of time.time()
    parsers,            \* RobotsParser.parsers
    content_hashes,     \* ContentDeduplicator.content_hashes
    is_trained,         \* ContinuousLearner.is_trained
    visited_domains,    \* EnhancedLinkPrioritizer.visited_domains
    crawl_state,        \* where crawl() is: "init", "gather", "returned", "raised"
    tasks,              \* the coroutines crawl() built: sequence of <<url, depth>>
    pc,                 \* where each task is
    outcome,            \* history: how each task's process_url call ended
    fetch_log,          \* history: the calls of session.get, in order
    page_log,           \* history: the bodies read by response.text(), in order
    score_gets,         \* history: the URLs requested by prioritize_links
    queue_priority,     \* history: the score each url_queue entry was given
    first_delay,        \* history: delays when the update calls below began
    updates,            \* history: per domain, the update calls made on it
    revalidation,       \* the update_proxies call in progress, <<>> when none
    robots_calls,       \* history: the calls of RobotsParser.can_fetch, in order
    proxy_calls         \* history: the calls of get_proxy and the lists
                        \* update_proxies assigned, in order

vars == <<seed_urls, proxies, current_index, url_queue, visited_urls, results,
          delays, last_request_time, now, parsers, content_hashes, is_trained,
          visited_domains, crawl_state, tasks, pc, outcome, fetch_log, page_log,
          score_gets, queue_priority, first_delay, updates, revalidation,
          robots_calls, proxy_calls>>

rate_history == <<first_delay, updates>>

call_history == <<robots_calls, proxy_calls>>

\* d[k] of a defaultdict whose factory returns dflt, and d after d[k] = v.
DGet(d, k, dflt) == IF k \in DOMAIN d THEN d[k] ELSE dflt
DPut(d, k, v) == [x \in DOMAIN d \cup {k} |-> IF x = k THEN v ELSE d[x]]

Tasks == 1..Len(tasks)
UrlOf(t) == tasks[t][1]
DepthOf(t) == tasks[t][2]

\* A seed carries no score: url_queue holds (url, 0) for it.
NoPriority == <<>>

\* The state EnhancedCrawler.__init__ leaves, for the seed lists and proxy
\* lists given.
Constructed(seedlists, proxylists) ==
    /\ seed_urls \in seedlists
    /\ proxies \in proxylists
    /\ current_index = 0
    /\ url_queue = [i \in 1..Len(seed_urls) |-> <<seed_urls[i], 0>>]
    /\ visited_urls = {}
    /\ results = <<>>
    /\ delays = <<>>
    /\ last_request_time = <<>>
    /\ now = Q(Epoch)
    /\ parsers = <<>>
    /\ content_hashes = {}
    /\ is_trained = FALSE
    /\ visited_domains = [h \in Hosts |-> 0]
    /\ crawl_state = "init"
    /\ tasks = <<>>
    /\ pc = <<>>
    /\ outcome = <<>>
    /\ fetch_log = <<>>
    /\ page_log = <<>>
    /\ score_gets = {}
    /\ queue_priority = [i \in 1..Len(seed_urls) |-> NoPriority]
    /\ first_delay = <<>>
    /\ updates = [h \in Hosts |-> <<>>]
    /\ revalidation = <<>>
    /\ robots_calls = <<>>
    /\ proxy_calls = <<>>

Init == Constructed(SeedLists, ProxyLists)

(***************************************************************************)
(* crawl(): one coroutine per entry url_queue holds when crawl is called,  *)
(* all handed to asyncio.gather.                                           *)
(***************************************************************************)
TasksOf(queue) == queue

Crawl ==
    /\ crawl_state = "init"
    /\ crawl_state' = "gather"
    /\ tasks' = TasksOf(url_queue)
    /\ pc' = [t \in 1..Len(TasksOf(url_queue)) |-> "created"]
    /\ outcome' = [t \in 1..Len(TasksOf(url_queue)) |-> "pending"]
    /\ UNCHANGED <<rate_history, revalidation, call_history>>
    /\ UNCHANGED <<seed_urls, proxies, current_index, url_queue, visited_urls,
                   results, delays, last_request_time, now, parsers,
                   content_hashes, is_trained, visited_domains, fetch_log,
                   page_log, score_gets, queue_priority>>

(***************************************************************************)
(* process_url, first segment: from the entry to the call of session.get   *)
(***************************************************************************)
\* A variant of line 80 that lost the depth test.
DroppedIgnoringDepth(url, depth, visited) == url \in visited

\* Line 80: the entry is dropped.
Dropped(url, depth, visited) == depth > max_depth \/ url \in visited

\* Lines 84-88: the domain has used up its budget.
OverBudget(visited, domain) ==
    Cardinality({u \in visited : Netloc(u) = domain}) >= max_urls_per_domain

\* asyncio runs the tasks gather created in the order they were created.
MayStart(t) ==
    /\ crawl_state \in {"gather", "raised"}
    /\ t \in Tasks
    /\ pc[t] = "created"
    /\ \A s \in 1..(t - 1) : pc[s] # "created"

Ends(t, how) ==
    /\ pc' = [pc EXCEPT ![t] = IF how \in {"robots_raised", "proxy_raised"}
                               THEN "raised" ELSE "returned"]
    /\ outcome' = [outcome EXCEPT ![t] = how]

\* One can_fetch call: the URL asked about, whether robots.txt was fetched
\* for it, and the answer ("True", "False" or the exception raised).
CanFetchCall(url, fetched, answer) ==
    [url |-> url, fetched |-> fetched, answer |-> answer]

\* One get_proxy call: the proxy returned ("IndexError" when it raises) and
\* the list it was taken from.  One assignment of update_proxies: the list.
GetProxyCall(plist, index) ==
    [op |-> "get",
     proxy |-> IF GetProxyRaises(plist, index) THEN "IndexError"
               ELSE GetProxy(plist, index),
     list |-> plist]

Start(t) ==
    /\ MayStart(t)
    /\ LET url == UrlOf(t)
           depth == DepthOf(t)
           domain == Netloc(url)
           cached == domain \in DOMAIN parsers
       IN
       IF Dropped(url, depth, visited_urls) \/ OverBudget(visited_urls, domain)
       THEN /\ Ends(t, IF Dropped(url, depth, visited_urls)
                       THEN "dropped" ELSE "over_budget")
            /\ UNCHANGED <<parsers, delays, last_request_time, now,
                           current_index, fetch_log, call_history>>
       ELSE \E reply \in (IF cached THEN {"cached"} ELSE RobotsReplies) :
            IF reply = "unreachable"
            THEN \* parser.read() raises URLError out of process_url
                 /\ Ends(t, "robots_raised")
                 /\ robots_calls' = Append(robots_calls,
                                           CanFetchCall(url, TRUE, "URLError"))
                 /\ UNCHANGED <<parsers, delays, last_request_time, now,
                                current_index, fetch_log, proxy_calls>>
            ELSE
            LET parser == IF cached THEN parsers[domain] ELSE ParserFor(reply)
                started == WaitUntil(now, DGet(last_request_time, domain, Q(0)),
                                     DGet(delays, domain, initial_delay))
            IN
            /\ parsers' = DPut(parsers, domain, parser)
            /\ robots_calls' = Append(robots_calls,
                   CanFetchCall(url, ~cached,
                                IF ParserCanFetch(parser, url)
                                THEN "True" ELSE "False"))
            /\ IF ~ParserCanFetch(parser, url)
               THEN /\ Ends(t, "robots_deny")
                    /\ UNCHANGED <<delays, last_request_time, now,
                                   current_index, fetch_log, proxy_calls>>
               ELSE \* rate_limiter.wait(domain)
                    /\ now' = started
                    /\ last_request_time' = DPut(last_request_time, domain, started)
                    /\ delays' = DPut(delays, domain, DGet(delays, domain, initial_delay))
                    /\ proxy_calls' = Append(proxy_calls,
                                             GetProxyCall(proxies, current_index))
                    /\ IF GetProxyRaises(proxies, current_index)
                       THEN /\ Ends(t, "proxy_raised")
                            /\ UNCHANGED <<current_index, fetch_log>>
                       ELSE /\ current_index' = NextIndex(proxies, current_index)
                            /\ pc' = [pc EXCEPT ![t] = "get"]
                            /\ fetch_log' = Append(fetch_log,
                                   [task |-> t, url |-> url, start |-> started,
                                    proxy |-> GetProxy(proxies, current_index),
                                    ended |-> FALSE, end_delay |-> Q(0)])
                            /\ UNCHANGED outcome
    /\ UNCHANGED <<rate_history, revalidation>>
    /\ UNCHANGED <<seed_urls, proxies, url_queue, visited_urls, results,
                   content_hashes, is_trained, visited_domains, crawl_state,
                   tasks, page_log, score_gets, queue_priority>>

(***************************************************************************)
(* process_url, the two suspensions and what follows them                  *)
(***************************************************************************)
\* The fetch of task t has ended and rate_limiter.update was applied.
FetchEnded(log, t, d) ==
    [i \in 1..Len(log) |->
        IF log[i].task = t /\ ~log[i].ended
        THEN [log[i] EXCEPT !.ended = TRUE, !.end_delay = d]
        ELSE log[i]]

\* rate_limiter.update(domain, success), the last statement of every path
\* that follows session.get.
RateUpdate(t, success) ==
    LET domain == Netloc(UrlOf(t))
        d == UpdatedDelay(DGet(delays, domain, initial_delay), success)
    IN /\ delays' = DPut(delays, domain, d)
       /\ fetch_log' = FetchEnded(fetch_log, t, d)

\* session.get completes: a transport error, a non-200 status or a 200.
GetResponse(t) ==
    /\ t \in Tasks
    /\ pc[t] = "get"
    /\ \E dt \in Latencies : now' = RAdd(now, dt)
    /\ \E status \in {"error", "500", "200"} :
         IF status = "200"
         THEN /\ pc' = [pc EXCEPT ![t] = "text"]
              /\ UNCHANGED <<outcome, delays, fetch_log>>
         ELSE /\ Ends(t, IF status = "error" THEN "transport" ELSE "non2xx")
              /\ RateUpdate(t, FALSE)
    /\ UNCHANGED <<rate_history, revalidation, call_history>>
    /\ UNCHANGED <<seed_urls, proxies, current_index, url_queue, visited_urls,
                   results, last_request_time, parsers, content_hashes,
                   is_trained, visited_domains, crawl_state, tasks, page_log,
                   score_gets, queue_priority>>

\* Lines 124-128: the link itself when it has a scheme, else the link put
\* after the scheme and netloc of the page.
FullUrl(link, url) ==
    IF HasScheme(link) THEN link[2] ELSE <<Netloc(url), link[2]>>

\* Lines 123-130: the scored links that are appended to url_queue, in order.
RECURSIVE NewEntries(_, _, _, _)
NewEntries(scored, url, depth, visited) ==
    IF scored = <<>> THEN <<>>
    ELSE LET full == FullUrl(Head(scored)[1], url)
             rest == NewEntries(Tail(scored), url, depth, visited)
         IN IF full \notin visited
            THEN <<[entry |-> <<full, depth + 1>>, priority |-> <<Head(scored)[2]>>]>>
                 \o rest
            ELSE rest

(***************************************************************************)
(* ContinuousLearner (src/utils/continuous_learner.py).  predict returns   *)
(* the constant 0.5 while the learner is untrained and asks the classifier *)
(* once it is trained; update trains or refits.  The calls into the        *)
(* vectorizer and the classifier either return or raise.                   *)
(***************************************************************************)
\* Lines 104-130 for one page: every step returns ("ok"), predict raises,
\* update raises, or a step of lines 117-130 raises.
LearnerRuns(trained) ==
    {"ok", "update_raises", "links_raise"}
    \cup (IF trained THEN {"predict_raises"} ELSE {})

\* The replies prioritize_links can get for the links: a link without a
\* scheme is never requested.
RepliesFor(links) ==
    {r \in [1..Len(links) -> LinkReplies] :
        \A i \in 1..Len(links) : ~HasScheme(links[i]) => r[i] = ""}

\* response.text() completes with a body, or raises; lines 101-142 follow.
TextArrives(t) ==
    /\ t \in Tasks
    /\ pc[t] = "text"
    /\ \E dt \in Latencies : now' = RAdd(now, dt)
    /\ LET url == UrlOf(t)
           depth == DepthOf(t)
       IN
       \E content \in Bodies \cup {"error"} :
       IF content = "error"
       THEN /\ Ends(t, "transport")
            /\ RateUpdate(t, FALSE)
            /\ UNCHANGED <<url_queue, visited_urls, results, content_hashes,
                           is_trained, visited_domains, page_log, score_gets,
                           queue_priority>>
       ELSE IF IsDuplicate(content_hashes, content)
       THEN /\ visited_urls' = visited_urls \cup {url}
            /\ Ends(t, "duplicate")
            /\ RateUpdate(t, TRUE)
            /\ page_log' = Append(page_log,
                                  [url |-> url, body |-> content, emitted |-> FALSE])
            /\ UNCHANGED <<url_queue, results, content_hashes, is_trained,
                           visited_domains, score_gets, queue_priority>>
       ELSE
       /\ content_hashes' = HashesAfter(content_hashes, content)
       /\ IF Extract(content, url) = <<>>
          THEN /\ visited_urls' = visited_urls \cup {url}
               /\ Ends(t, "not_extracted")
               /\ RateUpdate(t, TRUE)
               /\ page_log' = Append(page_log,
                                  [url |-> url, body |-> content, emitted |-> FALSE])
               /\ UNCHANGED <<url_queue, results, is_trained, visited_domains,
                              score_gets, queue_priority>>
          ELSE
          \E run \in LearnerRuns(is_trained) :
          IF run = "predict_raises"
          THEN /\ Ends(t, "predict_raised")
               /\ RateUpdate(t, FALSE)
               /\ page_log' = Append(page_log,
                                  [url |-> url, body |-> content, emitted |-> FALSE])
               /\ UNCHANGED <<url_queue, visited_urls, results, is_trained,
                              visited_domains, score_gets, queue_priority>>
          ELSE
          /\ results' = Append(results, [url |-> url, body |-> content])
          /\ page_log' = Append(page_log,
                                [url |-> url, body |-> content, emitted |-> TRUE])
          /\ IF run = "update_raises"
             THEN /\ Ends(t, "update_raised")
                  /\ RateUpdate(t, FALSE)
                  /\ UNCHANGED <<url_queue, visited_urls, is_trained,
                                 visited_domains, score_gets, queue_priority>>
             ELSE IF run = "links_raise"
             THEN \* prioritize_links raises after it has handled done links
                  \E done \in 0..Len(LinksOf(content)) :
                  \E replies \in RepliesFor(SubSeq(LinksOf(content), 1, done)) :
                  LET pl == PrioritizeLinks(SubSeq(LinksOf(content), 1, done),
                                            replies, visited_domains, score_gets)
                  IN /\ is_trained' = TRUE
                     /\ visited_domains' = pl.vd
                     /\ score_gets' = pl.gets
                     /\ Ends(t, "links_raised")
                     /\ RateUpdate(t, FALSE)
                     /\ UNCHANGED <<url_queue, visited_urls, queue_priority>>
             ELSE
             \E replies \in RepliesFor(LinksOf(content)) :
             LET pl == PrioritizeLinks(LinksOf(content), replies,
                                       visited_domains, score_gets)
                 new == NewEntries(pl.scored, url, depth, visited_urls)
             IN /\ is_trained' = TRUE
                /\ visited_domains' = pl.vd
                /\ score_gets' = pl.gets
                /\ url_queue' = url_queue \o [i \in 1..Len(new) |-> new[i].entry]
                /\ queue_priority' =
                       queue_priority \o [i \in 1..Len(new) |-> new[i].priority]
                /\ visited_urls' = visited_urls \cup {url}
                /\ Ends(t, "emitted")
                /\ RateUpdate(t, TRUE)
    /\ UNCHANGED <<rate_history, revalidation, call_history>>
    /\ UNCHANGED <<seed_urls, proxies, current_index, last_request_time,
                   parsers, crawl_state, tasks>>

(***************************************************************************)
(* crawl() leaves asyncio.gather: with the first exception a task raises,  *)
(* or when every task has returned.                                        *)
(***************************************************************************)
CrawlReturns ==
    /\ crawl_state = "gather"
    /\ \A t \in Tasks : pc[t] = "returned"
    /\ crawl_state' = "returned"
    /\ UNCHANGED <<rate_history, revalidation, call_history>>
    /\ UNCHANGED <<seed_urls, proxies, current_index, url_queue, visited_urls,
                   results, delays, last_request_time, now, parsers,
                   content_hashes, is_trained, visited_domains, tasks, pc,
                   outcome, fetch_log, page_log, score_gets, queue_priority>>

CrawlRaises ==
    /\ crawl_state = "gather"
    /\ \E t \in Tasks : pc[t] = "raised"
    /\ crawl_state' = "raised"
    /\ UNCHANGED <<rate_history, revalidation, call_history>>
    /\ UNCHANGED <<seed_urls, proxies, current_index, url_queue, visited_urls,
                   results, delays, last_request_time, now, parsers,
                   content_hashes, is_trained, visited_domains, tasks, pc,
                   outcome, fetch_log, page_log, score_gets, queue_priority>>

Next ==
    \/ Crawl
    \/ \E t \in Tasks : Start(t)
    \/ \E t \in Tasks : GetResponse(t)
    \/ \E t \in Tasks : TextArrives(t)
    \/ CrawlReturns
    \/ CrawlRaises

Spec == Init /\ [][Next]_vars

(***************************************************************************)
(* A single worker: a task is started only when no other is in progress.   *)
(***************************************************************************)
NoneInProgress == \A s \in Tasks : pc[s] \in {"created", "returned", "raised"}

StartAlone(t) == NoneInProgress /\ Start(t)

NextSingle ==
    \/ Crawl
    \/ \E t \in Tasks : StartAlone(t)
    \/ \E t \in Tasks : GetResponse(t)
    \/ \E t \in Tasks : TextArrives(t)
    \/ CrawlReturns
    \/ CrawlRaises

SpecSingle == Init /\ [][NextSingle]_vars

(***************************************************************************)
(* crawl() awaited again on the same crawler while url_queue holds entries *)
(* no coroutine was built for: the list comprehension of line 74 then      *)
(* covers the whole of url_queue, the discovered entries included.         *)
(***************************************************************************)
MaxQueue == 3

InitRecrawl == Constructed({<<A>>}, {<<"p1", "p2">>})

Recrawl ==
    /\ crawl_state = "returned"
    /\ Len(tasks) < Len(url_queue)
    /\ Len(url_queue) <= MaxQueue
    /\ crawl_state' = "gather"
    /\ tasks' = TasksOf(url_queue)
    /\ pc' = [t \in 1..Len(TasksOf(url_queue)) |-> "created"]
    /\ outcome' = [t \in 1..Len(TasksOf(url_queue)) |-> "pending"]
    /\ UNCHANGED <<rate_history, revalidation, call_history>>
    /\ UNCHANGED <<seed_urls, proxies, current_index, url_queue, visited_urls,
                   results, delays, last_request_time, now, parsers,
                   content_hashes, is_trained, visited_domains, fetch_log,
                   page_log, score_gets, queue_priority>>

NextRecrawl ==
    \/ Crawl
    \/ Recrawl
    \/ \E t \in Tasks : Start(t)
    \/ \E t \in Tasks : GetResponse(t)
    \/ \E t \in Tasks : TextArrives(t)
    \/ CrawlReturns
    \/ CrawlRaises

SpecRecrawl == InitRecrawl /\ [][NextRecrawl]_vars

(***************************************************************************)
(* The proxy manager on its own: get_proxy and update_proxies called in    *)
(* any order on a ProxyManager built with a list of up to three proxies.   *)
(* update_proxies is a coroutine: it walks the list it found in            *)
(* self.proxies, suspends in check_proxy once per proxy, and assigns the   *)
(* list of proxies that answered 200 after the last check.  get_proxy can  *)
(* run at each suspension.  One update_proxies call runs at a time.        *)
(***************************************************************************)
MaxCalls == 5

ManagerLists == {<<>>, <<"p1">>, <<"p1", "p2">>, <<"p1", "p2", "p3">>}

InitProxy == Constructed({<<>>}, ManagerLists)

ProxyFrame ==
    /\ UNCHANGED rate_history
    /\ UNCHANGED <<seed_urls, url_queue, visited_urls, results, delays,
                   last_request_time, now, parsers, content_hashes, is_trained,
                   visited_domains, crawl_state, tasks, pc, outcome, fetch_log,
                   page_log, score_gets, queue_priority, robots_calls>>

\* get_proxy()
GetProxyStep ==
    /\ Len(proxy_calls) < MaxCalls
    /\ proxy_calls' = Append(proxy_calls, GetProxyCall(proxies, current_index))
    /\ current_index' = IF GetProxyRaises(proxies, current_index)
                        THEN current_index
                        ELSE NextIndex(proxies, current_index)
    /\ UNCHANGED <<proxies, revalidation>>
    /\ ProxyFrame

\* update_proxies assigns self.proxies (line 26).
Assigned(valid) == [op |-> "update", proxy |-> "", list |-> valid]

\* update_proxies is called: with an empty list it assigns at once, else it
\* suspends in the first check_proxy.
UpdateProxiesBegins ==
    /\ revalidation = <<>>
    /\ Len(proxy_calls) < MaxCalls
    /\ IF proxies = <<>>
       THEN /\ proxy_calls' = Append(proxy_calls, Assigned(<<>>))
            /\ UNCHANGED <<proxies, revalidation>>
       ELSE /\ revalidation' = <<[list |-> proxies, pos |-> 1, valid |-> <<>>]>>
            /\ UNCHANGED <<proxies, proxy_calls>>
    /\ UNCHANGED current_index
    /\ ProxyFrame

\* check_proxy returns for the proxy at pos: lines 24-25, then the next
\* check_proxy, or line 26 after the last one.
CheckProxyReturns(ok) ==
    /\ revalidation # <<>>
    /\ LET r == revalidation[1]
           valid == IF ok THEN Append(r.valid, r.list[r.pos]) ELSE r.valid
       IN IF r.pos < Len(r.list)
          THEN /\ revalidation' = <<[r EXCEPT !.pos = @ + 1, !.valid = valid]>>
               /\ UNCHANGED <<proxies, proxy_calls>>
          ELSE /\ revalidation' = <<>>
               /\ proxies' = valid
               /\ proxy_calls' = Append(proxy_calls, Assigned(valid))
    /\ UNCHANGED current_index
    /\ ProxyFrame

NextProxy ==
    \/ GetProxyStep
    \/ UpdateProxiesBegins
    \/ \E ok \in BOOLEAN : CheckProxyReturns(ok)

SpecProxy == InitProxy /\ [][NextProxy]_vars

(***************************************************************************)
(* The rate limiter on its own: update(domain, success) called in any      *)
(* order on a limiter whose domain "a" holds some delay of [1.0, 60.0] or  *)
(* was never seen, and whose domain "b" was never seen.                    *)
(***************************************************************************)
MaxUpdates == 4

StartDelays ==
    {Q(1), <<3, 2>>, Q(2), <<7, 3>>, Q(27), Q(40), <<119, 2>>, Q(60)}

InitRate ==
    /\ delays \in {<<>>} \cup {[h \in {"a"} |-> d] : d \in StartDelays}
    /\ first_delay = delays
    /\ updates = [h \in Hosts |-> <<>>]
    /\ seed_urls = <<>>
    /\ proxies = <<>>
    /\ current_index = 0
    /\ url_queue = <<>>
    /\ visited_urls = {}
    /\ results = <<>>
    /\ last_request_time = <<>>
    /\ now = Q(Epoch)
    /\ parsers = <<>>
    /\ content_hashes = {}
    /\ is_trained = FALSE
    /\ visited_domains = [h \in Hosts |-> 0]
    /\ crawl_state = "init"
    /\ tasks = <<>>
    /\ pc = <<>>
    /\ outcome = <<>>
    /\ fetch_log = <<>>
    /\ page_log = <<>>
    /\ score_gets = {}
    /\ queue_priority = <<>>
    /\ revalidation = <<>>
    /\ robots_calls = <<>>
    /\ proxy_calls = <<>>

Update(domain, success) ==
    /\ Len(updates[domain]) < MaxUpdates
    /\ delays' = DPut(delays, domain,
                      UpdatedDelay(DGet(delays, domain, initial_delay), success))
    /\ updates' = [updates EXCEPT ![domain] = Append(@, success)]
    /\ UNCHANGED <<seed_urls, proxies, current_index, url_queue, visited_urls,
                   results, last_request_time, now, parsers, content_hashes,
                   is_trained, visited_domains, crawl_state, tasks, pc, outcome,
                   fetch_log, page_log, score_gets, queue_priority, first_delay,
                   revalidation, call_history>>

NextRate == \E domain \in Hosts, success \in BOOLEAN : Update(domain, success)

SpecRate == InitRate /\ [][NextRate]_vars

(***************************************************************************)
(* Properties                                                              *)
(***************************************************************************)
Fetches == 1..Len(fetch_log)
Records == 1..Len(results)
Pages   == 1..Len(page_log)

\* C1: the fetcher (session.get) is invoked at most once per URL in a run,
\* also when the URL is enqueued more than once.
C1_FetchedAtMostOnce ==
    \A i, j \in Fetches : fetch_log[i].url = fetch_log[j].url => i = j

\* C2: for two fetches f1 before f2 to one host, f2 starts no earlier than
\* f1's start plus the host's delay in force when f1 ended (after
\* rate_limiter.update for f1's outcome).
C2_Politeness ==
    \A i, j \in Fetches :
        (/\ i < j
         /\ Netloc(fetch_log[i].url) = Netloc(fetch_log[j].url)
         /\ fetch_log[i].ended)
        => RLe(RAdd(fetch_log[i].start, fetch_log[i].end_delay), fetch_log[j].start)

\* C3: for every host, the number of records in results whose URL is on the
\* host is at most max_urls_per_domain.
RecordsOn(h) == {k \in Records : Netloc(results[k].url) = h}

C3_HostBudget ==
    \A h \in Hosts : Cardinality(RecordsOn(h)) <= max_urls_per_domain

\* C4: a URL the host's robots policy denies is never the target of an HTTP
\* GET, by the fetch of process_url or by the requests of link scoring, and
\* no record is emitted for it.
RobotsDenied(u) ==
    /\ Netloc(u) \in DOMAIN parsers
    /\ ~ParserCanFetch(parsers[Netloc(u)], u)

GetTargets == {fetch_log[i].url : i \in Fetches} \cup score_gets

C4_NoGetOfDeniedUrl ==
    \A u \in GetTargets \cup {results[k].url : k \in Records} : ~RobotsDenied(u)

\* C5: among the pages read with byte-identical bodies only the first one
\* read produces a record; every later one produces none, and its URL is in
\* visited_urls.
C5_DedupFirstOnly ==
    /\ \A i, j \in Pages :
          (i < j /\ page_log[i].body = page_log[j].body)
          => (~page_log[j].emitted /\ page_log[j].url \in visited_urls)
    /\ \A i, j \in Records : results[i].body = results[j].body => i = j

\* C5 witness: a body was read twice, the first reading produced a record.
C5_Witness ==
    \E i, j \in Pages :
        /\ i < j
        /\ page_log[i].body = page_log[j].body
        /\ page_log[i].emitted
        /\ page_log[i].url # page_log[j].url

\* C6: no two records in results have the same url.
C6_DistinctRecordUrls ==
    \A i, j \in Records : results[i].url = results[j].url => i = j

\* C7: when crawl() returns, every entry ever appended to url_queue has been
\* taken from it and processed or dropped, and no fetch is in flight.
C7_FrontierDrained ==
    crawl_state = "returned"
    => /\ \A k \in 1..Len(url_queue) : k \in Tasks /\ pc[k] = "returned"
       /\ \A i \in Fetches : fetch_log[i].ended \/ pc[fetch_log[i].task] = "returned"

\* C8: with a single worker, whenever the frontier holds entries with
\* priorities p1 > p2, the next entry taken for processing is one with
\* priority p1 (the highest priority waiting).
Waiting == {k \in 1..Len(url_queue) : k \notin Tasks \/ pc[k] = "created"}

Scored(k) == queue_priority[k] # NoPriority

HighestWaiting(k) ==
    /\ k \in Waiting
    /\ Scored(k)
    /\ \A m \in Waiting : Scored(m) => RLe(queue_priority[m][1], queue_priority[k][1])

C8_PopsHighestPriority ==
    [][\A t \in Tasks :
          (/\ pc[t] = "created"
           /\ pc'[t] # "created"
           /\ \E k, m \in Waiting :
                 /\ Scored(k) /\ Scored(m)
                 /\ RLt(queue_priority[m][1], queue_priority[k][1]))
          => HighestWaiting(t)]_vars

\* C10: a URL whose processing ended in a transport failure, a non-2xx
\* response or a robots deny is in visited_urls once process_url returned.
C10_FailedUrlsVisited ==
    \A t \in Tasks :
        (pc[t] = "returned" /\ outcome[t] \in {"transport", "non2xx", "robots_deny"})
        => UrlOf(t) \in visited_urls

\* C9: from a delay d in [1.0, 60.0], n consecutive update(host, True) calls
\* leave the delay at max(d / 1.5^n, 1.0) and n consecutive
\* update(host, False) calls leave it at min(d * 1.5^n, 60.0); a host never
\* seen before starts at 1.0.
AllCalls(h, success) == \A i \in 1..Len(updates[h]) : updates[h][i] = success

C11_NoTaskRaises ==
    /\ crawl_state # "raised"
    /\ \A t \in Tasks : pc[t] # "raised"

\* C12: with an empty proxy list get_proxy returns without error and every
\* URL that reached proxy selection is fetched.
C12_EmptyProxyListFetches ==
    proxies = <<>>
    => /\ \A i \in 1..Len(proxy_calls) : proxy_calls[i].proxy # "IndexError"
       /\ \A t \in Tasks : outcome[t] # "proxy_raised"

\* C13: the number of fetches in flight (session.get called and not yet
\* completed) is at most the bound N, whatever the number of seed URLs.
\* N is the bound of the claim; crawl() and __init__ read no such setting.
N == 1

InFlight == {t \in Tasks : pc[t] = "get"}

C13_InFlightAtMostN == Cardinality(InFlight) <= N

\* C14: two runs with the same seeds, configuration and URL-to-response
\* mapping emit the same set of record URLs, whatever order the fetches
\* complete in.  The mapping taken here answers every URL with status 200
\* and the same body; the run in which the responses are read in seed order
\* emits a record for the first seed only, so every run must.
Fixture(url) == "home"

FixtureRun ==
    /\ crawl_state = "returned"
    /\ Len(page_log) = Len(tasks)
    /\ \A i \in Pages : page_log[i].body = Fixture(page_log[i].url)
    /\ \A t \in Tasks : outcome[t] \in {"emitted", "duplicate"}

RecordUrls == {results[k].url : k \in Records}

InOrderRecordUrls(seeds) ==
    {seeds[i] : i \in {i \in 1..Len(seeds) :
                          \A j \in 1..(i - 1) : Fixture(seeds[j]) # Fixture(seeds[i])}}

C14_SameRecordUrls == FixtureRun => RecordUrls = InOrderRecordUrls(seed_urls)

\* C15: in every quiescent state (no fetch in flight, no body being read)
\* the digests in content_hashes are exactly the digests of the bodies that
\* have a record in results, also when the extraction of a page failed.
Quiescent == \A t \in Tasks : pc[t] \notin {"get", "text"}

C15_HashesAreAcceptedBodies ==
    Quiescent => content_hashes = {Md5(results[k].body) : k \in Records}

\* C16: a discovered link whose URL is already in url_queue is not appended
\* to it: no entry that follows the seeds repeats the URL of an entry
\* before it.
Discovered == (Len(seed_urls) + 1)..Len(url_queue)

C16_NoRepeatedUrlInFrontier ==
    \A k \in Discovered : \A j \in 1..(k - 1) : url_queue[j][1] # url_queue[k][1]

\* C17: every entry that is fetched has depth <= max_depth: the seeds are
\* enqueued with depth 0, the links discovered on a page of depth d are
\* enqueued with depth d + 1, and an entry with depth > max_depth is
\* dropped before any robots check, rate-limit wait, proxy selection or
\* fetch is made for it.
FetchedWithinDepth ==
    \A i \in Fetches : DepthOf(fetch_log[i].task) <= max_depth

SeedsAtDepthZero ==
    \A k \in 1..Len(seed_urls) : url_queue[k] = <<seed_urls[k], 0>>

C17_DepthBounded ==
    [][/\ FetchedWithinDepth'
       /\ SeedsAtDepthZero'
       /\ \A t \in Tasks :
            /\ (pc[t] = "text" /\ pc'[t] = "returned")
               => \A k \in (Len(url_queue) + 1)..Len(url_queue') :
                     url_queue'[k][2] = DepthOf(t) + 1
            /\ (pc[t] = "created" /\ pc'[t] # "created" /\ DepthOf(t) > max_depth)
               => /\ outcome'[t] = "dropped"
                  /\ UNCHANGED <<robots_calls, parsers, last_request_time, now,
                                 proxy_calls, fetch_log>>]_vars

\* C17 witness: an entry of depth max_depth was fetched, and an entry of
\* depth max_depth + 1 whose URL is not visited was dropped.
C17_Witness ==
    /\ \E i \in Fetches : DepthOf(fetch_log[i].task) = max_depth
    /\ \E t \in Tasks :
          /\ DepthOf(t) = max_depth + 1
          /\ outcome[t] = "dropped"
          /\ UrlOf(t) \notin visited_urls

\* C18: for a non-empty proxy list of n entries that no update_proxies call
\* has assigned, the k-th get_proxy call returns the proxy at position
\* (k - 1) mod n, and in any n consecutive calls every proxy is returned
\* exactly once.
Unmodified == \A i \in 1..Len(proxy_calls) : proxy_calls[i].op = "get"

C18_RoundRobin ==
    (proxies # <<>> /\ Unmodified)
    => LET n == Len(proxies) IN
       /\ \A k \in 1..Len(proxy_calls) :
             proxy_calls[k].proxy = proxies[((k - 1) % n) + 1]
       /\ \A k \in 1..(Len(proxy_calls) - n + 1) : \A i \in 1..n :
             Cardinality({j \in k..(k + n - 1) :
                             proxy_calls[j].proxy = proxies[i]}) = 1

\* C18 witness: five calls on a list of three, the fourth and fifth after
\* the wrap-around.
C18_Witness ==
    /\ proxies = <<"p1", "p2", "p3">>
    /\ Unmodified
    /\ Len(proxy_calls) = 5
    /\ proxy_calls[4].proxy = "p1"
    /\ proxy_calls[5].proxy = "p2"

\* C19: two can_fetch calls with the same URL give the same answer, and
\* robots.txt of a host is fetched by the first call for the host only,
\* whatever the first fetch ended in.
C19_CanFetchCached ==
    \A i, j \in 1..Len(robots_calls) :
        i < j
        => /\ Netloc(robots_calls[i].url) = Netloc(robots_calls[j].url)
              => ~robots_calls[j].fetched
           /\ robots_calls[i].url = robots_calls[j].url
              => robots_calls[i].answer = robots_calls[j].answer

\* C20: whenever the proxy list is not empty, also after update_proxies has
\* assigned a shorter one, current_index is an index of it, and a get_proxy
\* call on a non-empty list returns one of its proxies.
C20_IndexValidAfterUpdate ==
    /\ proxies # <<>> => current_index \in 0..(Len(proxies) - 1)
    /\ \A i \in 1..Len(proxy_calls) :
          (proxy_calls[i].op = "get" /\ proxy_calls[i].list # <<>>)
          => \E k \in 1..Len(proxy_calls[i].list) :
                proxy_calls[i].proxy = proxy_calls[i].list[k]

\* C21: once a process_url call has returned, a URL it appended a record
\* for is in visited_urls, also when a step after the append (learner
\* update, link parsing, link scoring, URL resolution) raised.
C21_RecordedUrlsVisited ==
    \A t \in Tasks :
        (/\ pc[t] = "returned"
         /\ outcome[t] \in {"emitted", "update_raised", "links_raised"}
         /\ \E k \in Records : results[k].url = UrlOf(t))
        => UrlOf(t) \in visited_urls

====
